---- MODULE Spec2Model ----
(***************************************************************************)
(* A model of bedrock-ai-converter.py: the CloudFormation tag constructors *)
(* registered on yaml.SafeLoader, the reply sanitizer of                   *)
(* BedrockConverter.call_bedrock and the sequential run of                 *)
(* BedrockConverter.convert.                                               *)
(*                                                                         *)
(* Texts are sequences of one-character strings.                           *)
(***************************************************************************)
EXTENDS Integers, Sequences, FiniteSets, TLC

\* Bounds of the model.
MaxLines == 4
MaxPayload == 5
MaxKids == 2

----------------------------------------------------------------------------
(* Generic helpers on sequences and sets of integers.                      *)

SetMin(S) == CHOOSE x \in S : \A y \in S : x <= y

SetMax(S) == CHOOSE x \in S : \A y \in S : y <= x

\* The subsequence of s at the positions listed in ix.
Pick(s, ix) == [k \in 1..Len(ix) |-> s[ix[k]]]

----------------------------------------------------------------------------
(* The reply sanitizer: call_bedrock, lines 50-55.                         *)

\* The characters \s matches and str.strip() trims, within the alphabet.
Ws == {" ", "\n"}

\* The backtick character (TLA+ strings cannot hold one).
BT == "BT"

\* The fence marker: three backticks.
Fence3 == <<BT, BT, BT>>

\* The alternation (?:hcl|terraform|tf), in the order the pattern tries it.
Hints == << <<"h", "c", "l">>,
            <<"t", "e", "r", "r", "a", "f", "o", "r", "m">>,
            <<"t", "f">> >>

HasPrefixAt(s, i, w) ==
    /\ i + Len(w) - 1 <= Len(s)
    /\ \A k \in 1..Len(w) : s[i + k - 1] = w[k]

\* ^ under re.MULTILINE: the start of the text or just after a newline.
AtLineStart(s, i) == i = 1 \/ s[i - 1] = "\n"

\* $ under re.MULTILINE, before position i: the end of the text or just
\* before a newline.
AtLineEnd(s, i) == i = Len(s) + 1 \/ s[i] = "\n"

\* The first position at or after j that holds no whitespace (Len(s)+1 when
\* the whitespace runs to the end): where a greedy \s* started at j stops.
WsRunEnd(s, j) ==
    SetMin({k \in j..(Len(s) + 1) : k = Len(s) + 1 \/ s[k] \notin Ws})

\* \s*\n started at j: greedy \s* backtracks to the last newline of the
\* whitespace run. The index of that newline, 0 when there is none.
NewlineTailEnd(s, j) ==
    LET nl == {k \in j..(WsRunEnd(s, j) - 1) : s[k] = "\n"}
    IN  IF nl = {} THEN 0 ELSE SetMax(nl)

\* (?:hcl|terraform|tf)?\s*\n started at j: the alternatives in order from
\* a, then the empty alternative of the optional group.
RECURSIVE HintTailEnd(_, _, _)
HintTailEnd(s, j, a) ==
    IF a > Len(Hints)
    THEN NewlineTailEnd(s, j)
    ELSE IF /\ HasPrefixAt(s, j, Hints[a])
            /\ NewlineTailEnd(s, j + Len(Hints[a])) > 0
         THEN NewlineTailEnd(s, j + Len(Hints[a]))
         ELSE HintTailEnd(s, j, a + 1)

\* Line 51: the opening-fence pattern (line start, fence, optional hint,
\* whitespace, newline) matched at i. The index of the
\* last character of the match, 0 when there is no match at i.
Sub1End(s, i) ==
    IF AtLineStart(s, i) /\ HasPrefixAt(s, i, Fence3)
    THEN HintTailEnd(s, i + 3, 1)
    ELSE 0

\* Line 52: the closing-fence pattern (newline, fence, whitespace, line end)
\* matched at i.
Sub2End(s, i) ==
    IF s[i] = "\n" /\ HasPrefixAt(s, i + 1, Fence3)
    THEN LET ends == {k \in (i + 4)..WsRunEnd(s, i + 4) : AtLineEnd(s, k)}
         IN  IF ends = {} THEN 0 ELSE SetMax(ends) - 1
    ELSE 0

\* A variant of Sub3End: the bare-fence pattern without its anchors, a fence
\* anywhere on a line.
Sub3EndUnanchored(s, i) ==
    IF HasPrefixAt(s, i, Fence3) THEN i + 2 ELSE 0

\* Line 53: the bare-fence pattern (a line that is exactly a fence) matched
\* at i.
Sub3End(s, i) ==
    IF AtLineStart(s, i) /\ HasPrefixAt(s, i, Fence3) /\ AtLineEnd(s, i + 3)
    THEN i + 2
    ELSE 0

\* re.sub with the empty replacement: the positions of s that survive,
\* scanning from i.
\* Every match is removed (no count is passed); the scan resumes after it.
RECURSIVE KeepSub1(_, _)
KeepSub1(s, i) ==
    IF i > Len(s) THEN <<>>
    ELSE IF Sub1End(s, i) > 0 THEN KeepSub1(s, Sub1End(s, i) + 1)
         ELSE <<i>> \o KeepSub1(s, i + 1)

RECURSIVE KeepSub2(_, _)
KeepSub2(s, i) ==
    IF i > Len(s) THEN <<>>
    ELSE IF Sub2End(s, i) > 0 THEN KeepSub2(s, Sub2End(s, i) + 1)
         ELSE <<i>> \o KeepSub2(s, i + 1)

RECURSIVE KeepSub3(_, _)
KeepSub3(s, i) ==
    IF i > Len(s) THEN <<>>
    ELSE IF Sub3End(s, i) > 0 THEN KeepSub3(s, Sub3End(s, i) + 1)
         ELSE <<i>> \o KeepSub3(s, i + 1)

\* Line 55: text.strip(): the positions from the first to the last
\* character that is not whitespace.
KeepStrip(s) ==
    LET solid == {k \in 1..Len(s) : s[k] \notin Ws}
    IN  IF solid = {} THEN <<>>
        ELSE [k \in 1..(SetMax(solid) - SetMin(solid) + 1) |->
                 SetMin(solid) + k - 1]

\* Lines 51-55 in order: the positions of the reply t that the returned text
\* is made of.
SanitizeKept(t) ==
    LET k1 == KeepSub1(t, 1)
        s1 == Pick(t, k1)
        k2 == Pick(k1, KeepSub2(s1, 1))
        s2 == Pick(t, k2)
        k3 == Pick(k2, KeepSub3(s2, 1))
        s3 == Pick(t, k3)
    IN  Pick(k3, KeepStrip(s3))

\* The text call_bedrock returns for the reply t.
Sanitize(t) == Pick(t, SanitizeKept(t))

----------------------------------------------------------------------------
(* Reply texts the collaborator may return.                                *)

UpperOf == [c \in {"h", "c", "l", "t", "e", "r", "a", "f", "o", "m"} |->
              CASE c = "h" -> "H" [] c = "c" -> "C" [] c = "l" -> "L"
                [] c = "t" -> "T" [] c = "e" -> "E" [] c = "r" -> "R"
                [] c = "a" -> "A" [] c = "f" -> "F" [] c = "o" -> "O"
                [] c = "m" -> "M"]

LowerChar(c) ==
    IF \E l \in DOMAIN UpperOf : UpperOf[l] = c
    THEN CHOOSE l \in DOMAIN UpperOf : UpperOf[l] = c
    ELSE c

Lower(s) == [k \in 1..Len(s) |-> LowerChar(s[k])]

\* Every upper/lower-case spelling of the word w.
Spellings(w) ==
    {[k \in 1..Len(w) |-> IF k \in m THEN UpperOf[w[k]] ELSE w[k]] :
        m \in SUBSET (1..Len(w))}

HintSet == {Hints[a] : a \in 1..Len(Hints)}

HintSpellings == UNION {Spellings(w) : w \in HintSet}

\* The lines reply texts are made of.
LineForms ==
    { <<>>,
      Fence3,
      Fence3 \o <<"t", "f">>,
      <<" ">> \o Fence3,
      <<"x">>,
      <<"x">> \o Fence3,
      Fence3 \o <<" ">>,
      Fence3 \o <<BT>> }

RECURSIVE TextsOf(_)
TextsOf(n) ==
    IF n = 1 THEN LineForms
    ELSE {l \o <<"\n">> \o t : l \in LineForms, t \in TextsOf(n - 1)}

LineTexts == UNION {TextsOf(n) : n \in 1..MaxLines}

\* A fenced block opened by a fence with a spelling of a hint.
SpellingTexts ==
    {Fence3 \o sp \o <<"\n", "x", "\n">> \o Fence3 : sp \in HintSpellings}

Replies == LineTexts \cup SpellingTexts

----------------------------------------------------------------------------
(* The document loader: yaml.safe_load with the constructors of lines      *)
(* 10-25 registered on yaml.SafeLoader.                                    *)
(*                                                                         *)
(* A node is what the YAML composer hands to the constructor: its tag (an  *)
(* explicit application tag, or the tag the resolver gives an untagged     *)
(* node), its kind, the text of a scalar, the items of a sequence or the   *)
(* keys and values of a mapping.                                           *)

ScalarNode(tag, value) ==
    [tag |-> tag, kind |-> "scalar", value |-> value, keys |-> <<>>,
     kids |-> <<>>]

SeqNode(tag, kids) ==
    [tag |-> tag, kind |-> "sequence", value |-> <<>>, keys |-> <<>>,
     kids |-> kids]

MapNode(tag, keys, kids) ==
    [tag |-> tag, kind |-> "mapping", value |-> <<>>, keys |-> keys,
     kids |-> kids]

\* Lines 10-25: the long-form name each registered tag expands to, and the
\* loader method its lambda calls on the node.
CfnConstructors ==
    [tag \in {"!Ref", "!Sub", "!GetAtt", "!Join", "!Select", "!GetAZs",
              "!Split", "!Base64", "!Cidr", "!ImportValue", "!FindInMap",
              "!If", "!Equals", "!Not", "!And", "!Or"} |->
       CASE tag = "!Ref"         -> [name |-> "Ref",             arg |-> "scalar"]
         [] tag = "!Sub"         -> [name |-> "Fn::Sub",         arg |-> "scalar"]
         [] tag = "!GetAtt"      -> [name |-> "Fn::GetAtt",      arg |-> "split"]
         [] tag = "!Join"        -> [name |-> "Fn::Join",        arg |-> "sequence"]
         [] tag = "!Select"      -> [name |-> "Fn::Select",      arg |-> "sequence"]
         [] tag = "!GetAZs"      -> [name |-> "Fn::GetAZs",      arg |-> "scalar"]
         [] tag = "!Split"       -> [name |-> "Fn::Split",       arg |-> "sequence"]
         [] tag = "!Base64"      -> [name |-> "Fn::Base64",      arg |-> "scalar"]
         [] tag = "!Cidr"        -> [name |-> "Fn::Cidr",        arg |-> "sequence"]
         [] tag = "!ImportValue" -> [name |-> "Fn::ImportValue", arg |-> "scalar"]
         [] tag = "!FindInMap"   -> [name |-> "Fn::FindInMap",   arg |-> "sequence"]
         [] tag = "!If"          -> [name |-> "Fn::If",          arg |-> "sequence"]
         [] tag = "!Equals"      -> [name |-> "Fn::Equals",      arg |-> "sequence"]
         [] tag = "!Not"         -> [name |-> "Fn::Not",         arg |-> "sequence"]
         [] tag = "!And"         -> [name |-> "Fn::And",         arg |-> "sequence"]
         [] tag = "!Or"          -> [name |-> "Fn::Or",          arg |-> "sequence"]]

CfnTags == DOMAIN CfnConstructors

\* The tags the resolver gives untagged nodes, all constructed by the
\* SafeLoader itself: a string, a timestamp, a sequence, a mapping.
ResolvedTags == {"str", "timestamp", "seq", "map"}

\* The values the loader builds. A failed load is the value PyError.
PyStr(s) == [type |-> "str", text |-> s, keys |-> <<>>, items |-> <<>>]

PyDate(s) == [type |-> "date", text |-> s, keys |-> <<>>, items |-> <<>>]

PyList(items) ==
    [type |-> "list", text |-> <<>>, keys |-> <<>>, items |-> items]

PyDict(keys, items) ==
    [type |-> "dict", text |-> <<>>, keys |-> keys, items |-> items]

PyError == [type |-> "error", text |-> <<>>, keys |-> <<>>, items |-> <<>>]

Failed(items) == \E k \in 1..Len(items) : items[k].type = "error"

\* A variant of SplitDot: the payload cut at its first dot only.
SplitFirstDot(s) ==
    LET dots == {k \in 1..Len(s) : s[k] = "."}
    IN  IF dots = {} THEN <<s>>
        ELSE <<SubSeq(s, 1, SetMin(dots) - 1),
               SubSeq(s, SetMin(dots) + 1, Len(s))>>

\* str.split on the dot, line 12: cut at every dot.
RECURSIVE SplitDot(_)
SplitDot(s) ==
    LET dots == {k \in 1..Len(s) : s[k] = "."}
    IN  IF dots = {} THEN <<s>>
        ELSE <<SubSeq(s, 1, SetMin(dots) - 1)>>
               \o SplitDot(SubSeq(s, SetMin(dots) + 1, Len(s)))

\* A variant of CfnValue: the mapping keyed by the tag itself.
CfnValueTagKey(tag, arg) == PyDict(<<tag>>, <<arg>>)

\* The value a registered lambda returns, given the result of the loader
\* method it calls: one key, the long-form name.
CfnValue(tag, arg) == PyDict(<<CfnConstructors[tag].name>>, <<arg>>)

\* A variant of ConstructorFor: an unregistered tag is loaded as a plain
\* string instead of raising.
ConstructorForLenient(tag) ==
    IF tag \in CfnTags THEN CfnConstructors[tag].arg
    ELSE IF tag \in ResolvedTags THEN tag
    ELSE "str"

\* Which constructor the loader picks for a tag: a registered lambda, one
\* of its own, or construct_undefined, which raises.
ConstructorFor(tag) ==
    IF tag \in CfnTags THEN CfnConstructors[tag].arg
    ELSE IF tag \in ResolvedTags THEN tag
    ELSE "undefined"

\* loader.construct_object(node): the value of a node, PyError when a
\* constructor raises (an unregistered tag, construct_scalar on a node that
\* is no scalar, construct_sequence on a node that is no sequence) or when
\* the construction of a node below it did.
RECURSIVE ConstructObject(_)
ConstructObject(n) ==
    LET c == ConstructorFor(n.tag)
        items == [k \in 1..Len(n.kids) |-> ConstructObject(n.kids[k])]
    IN  CASE c = "scalar" ->
               IF n.kind = "scalar" THEN CfnValue(n.tag, PyStr(n.value))
               ELSE PyError
          [] c = "split" ->
               IF n.kind = "scalar"
               THEN CfnValue(n.tag,
                        PyList([k \in 1..Len(SplitDot(n.value)) |->
                                   PyStr(SplitDot(n.value)[k])]))
               ELSE PyError
          [] c = "sequence" ->
               IF n.kind = "sequence" /\ ~Failed(items)
               THEN CfnValue(n.tag, PyList(items))
               ELSE PyError
          [] c = "str" -> IF n.kind = "scalar" THEN PyStr(n.value) ELSE PyError
          [] c = "timestamp" ->
               IF n.kind = "scalar" THEN PyDate(n.value) ELSE PyError
          [] c = "seq" ->
               IF n.kind = "sequence" /\ ~Failed(items) THEN PyList(items)
               ELSE PyError
          [] c = "map" ->
               IF n.kind = "mapping" /\ ~Failed(items)
               THEN PyDict(n.keys, items)
               ELSE PyError
          [] OTHER -> PyError

----------------------------------------------------------------------------
(* Documents handed to the loader.                                         *)

PayloadChars == {"A", "B", "."}

\* Scalar payloads of up to MaxPayload characters.
Payloads == UNION {[1..k -> PayloadChars] : k \in 0..MaxPayload}

\* An application tag no constructor is registered for.
UnknownTag == "!Condition"

StrA == ScalarNode("str", <<"A">>)

\* The nodes used as items of sequences and values of mappings.
ChildNodes ==
    { StrA,
      ScalarNode("!Ref", <<"A">>),
      ScalarNode("!GetAtt", <<"A", ".", "B">>),
      ScalarNode(UnknownTag, <<"A">>),
      SeqNode("!Join", <<StrA, ScalarNode("!Sub", <<"B">>)>>),
      SeqNode("!Ref", <<StrA>>),
      SeqNode("seq", <<StrA>>) }

KidSeqs == UNION {[1..k -> ChildNodes] : k \in 0..MaxKids}

ScalarDocs ==
    {ScalarNode(t, v) : t \in CfnTags \cup {UnknownTag, "str", "timestamp"},
                        v \in {<<"A">>, <<"A", ".", "B">>}}

SeqDocs ==
    {SeqNode(t, kids) : t \in CfnTags \cup {UnknownTag, "seq"},
                        kids \in KidSeqs}

MapDocs ==
    {MapNode("map", <<"K1", "K2">>, <<a, b>>) : a, b \in ChildNodes}

GetAttDocs == {ScalarNode("!GetAtt", v) : v \in Payloads}

LoadDocs == ScalarDocs \cup SeqDocs \cup MapDocs \cup GetAttDocs

\* Whether a node or a node below it carries a tag that is neither
\* registered nor given by the resolver.
RECURSIVE HasUnknownTag(_)
HasUnknownTag(n) ==
    \/ n.tag \notin CfnTags \cup ResolvedTags
    \/ \E k \in 1..Len(n.kids) : HasUnknownTag(n.kids[k])

----------------------------------------------------------------------------
(* The run of convert: files, paths, the prompt and the report.            *)

Path(dir, name, ext) == [dir |-> dir, name |-> name, ext |-> ext]

\* Line 161: Path(output_dir) / (Path(cft_file).stem + ".tf").
OutputFile(cft, dir) == Path(dir, cft.name, "tf")

\* Line 175: Path(output_dir) / "CONVERSION_REPORT.md".
ReportFile(dir) == Path(dir, "CONVERSION_REPORT", "md")

\* The source paths and output directories a run is started with.
SrcPaths == {Path("tpl", "app", "yaml"), Path("out", "app", "tf")}

OutDirs == {"out", "tpl"}

AllPaths ==
    SrcPaths \cup {OutputFile(c, d) : c \in SrcPaths, d \in OutDirs}
             \cup {ReportFile(d) : d \in OutDirs}

NoFile == [exists |-> FALSE, data |-> <<>>]

File(data) == [exists |-> TRUE, data |-> data]

\* The source texts of the runs, each named by one symbol, and the node
\* tree the YAML composer makes of each.
SourceDocs ==
    [src \in {"plain", "tagged", "nested", "unknown", "unknown_nested",
              "mismatch", "dated"} |->
       CASE src = "plain" ->
              MapNode("map", <<"Resources">>, <<StrA>>)
         [] src = "tagged" ->
              MapNode("map", <<"Resources">>, <<ScalarNode("!Ref", <<"A">>)>>)
         [] src = "nested" ->
              MapNode("map", <<"Resources">>,
                  <<SeqNode("!Join",
                        <<StrA, ScalarNode("!GetAtt", <<"A", ".", "B">>)>>)>>)
         [] src = "unknown" -> ScalarNode(UnknownTag, <<"A">>)
         [] src = "unknown_nested" ->
              MapNode("map", <<"Resources">>,
                  <<SeqNode("!If", <<ScalarNode(UnknownTag, <<"A">>), StrA>>)>>)
         [] src = "mismatch" ->
              MapNode("map", <<"Resources">>, <<SeqNode("!Ref", <<StrA>>)>>)
         [] src = "dated" ->
              MapNode("map", <<"AWSTemplateFormatVersion">>,
                  <<ScalarNode("timestamp", <<"A">>)>>)]

SourceNames == DOMAIN SourceDocs

\* The node tree of the text read from the source file.
Compose(data) == SourceDocs[data[1]]

\* Line 69: json.dumps raises on a value it cannot serialise (a date).
RECURSIVE JsonSerializable(_)
JsonSerializable(v) ==
    /\ v.type # "date"
    /\ \A k \in 1..Len(v.items) : JsonSerializable(v.items[k])

\* The replies of the collaborator in the runs of convert.
RunReplies ==
    { <<"x">>,
      Fence3 \o <<"t", "f", "\n", "x", "\n">> \o Fence3,
      Fence3 \o <<"\n", "\n", "x", "\n", "\n">> \o Fence3 \o <<"\n">>,
      Fence3 \o <<"H", "C", "L", "\n", "x", "\n">> \o Fence3,
      <<>> }

\* Lines 166-173: the report, its fixed headings as single symbols.
ReportContent(cft, code, original) ==
    <<"# AI-Powered CloudFormation to Terraform Conversion", "\n", "\n",
      "## Source Template", "\n", "**File:** ", BT, cft.dir, "/", cft.name,
      ".", cft.ext, BT, "\n", "\n",
      "**Converted:** Using AWS Bedrock Nova Pro (us.amazon.nova-pro-v1:0)",
      "\n", "\n", "---", "\n", "\n", "## Generated Terraform Code", "\n",
      "\n">>
    \o Fence3 \o <<"h", "c", "l", "\n">>
    \o code
    \o <<"\n">> \o Fence3
    \o <<"\n", "\n", "---", "\n", "\n",
         "## Original CloudFormation Template", "\n", "\n">>
    \o Fence3 \o <<"y", "a", "m", "l", "\n">>
    \o original
    \o <<"\n">> \o Fence3 \o <<"\n">>

Contains(big, small) ==
    \E off \in 0..(Len(big) - Len(small)) :
        \A k \in 1..Len(small) : big[off + k] = small[k]

----------------------------------------------------------------------------
(* State.                                                                  *)

VARIABLES
    pc,                 \* where the run of convert stands
    cft_file,           \* convert's first argument
    output_dir,         \* convert's second argument
    fs,                 \* the files: path -> whether it exists, its content
    source_text,        \* the text yaml.safe_load read at line 64
    template,           \* the loaded document (line 64)
    prompt,             \* the document embedded in the prompt (line 69)
    calls,              \* how often bedrock.converse was called (line 35)
    reply,              \* the text of the collaborator's response (line 48)
    tf_code,            \* what call_bedrock returned (line 159)
    original_template,  \* the text read again at line 165
    stdout,             \* the lines printed
    written,            \* the output files write_text has completed
    error,              \* the step whose exception ended the run
    text,               \* sanitizer alone: the reply text
    kept,               \* sanitizer alone: the positions of text returned
    clean,              \* sanitizer alone: the text returned
    clean2,             \* sanitizer alone: the text returned for clean
    sstep,              \* sanitizer alone: what has been applied
    node,               \* loader alone: the composed document
    data,               \* loader alone: the loaded document
    lstep               \* loader alone: what has been applied

runVars == <<pc, cft_file, output_dir, fs, source_text, template, prompt,
             calls, reply, tf_code, original_template, stdout, written,
             error>>

sanVars == <<text, kept, clean, clean2, sstep>>

loadVars == <<node, data, lstep>>

vars == <<runVars, sanVars, loadVars>>

PyNone == [type |-> "none", text |-> <<>>, keys |-> <<>>, items |-> <<>>]

\* A run that has not started, a sanitizer and a loader that are not in use.
RunIdle ==
    /\ pc = "idle"
    /\ cft_file = Path("tpl", "app", "yaml")
    /\ output_dir = "out"
    /\ fs = [p \in AllPaths |-> NoFile]
    /\ source_text = <<>>
    /\ template = PyNone
    /\ prompt = PyNone
    /\ calls = 0
    /\ reply = <<>>
    /\ tf_code = <<>>
    /\ original_template = <<>>
    /\ stdout = <<>>
    /\ written = {}
    /\ error = "none"

SanIdle ==
    /\ text = <<>>
    /\ kept = <<>>
    /\ clean = <<>>
    /\ clean2 = <<>>
    /\ sstep = "idle"

LoadIdle ==
    /\ node = StrA
    /\ data = PyNone
    /\ lstep = "idle"

----------------------------------------------------------------------------
(* The sanitizer applied to a reply, and to its own result.                *)

InitSan ==
    /\ text \in Replies
    /\ kept = <<>>
    /\ clean = <<>>
    /\ clean2 = <<>>
    /\ sstep = "reply"
    /\ RunIdle
    /\ LoadIdle

\* Lines 50-55 on the reply.
SanitizeReply ==
    /\ sstep = "reply"
    /\ kept' = SanitizeKept(text)
    /\ clean' = Pick(text, kept')
    /\ sstep' = "sanitized"
    /\ UNCHANGED <<text, clean2, runVars, loadVars>>

\* Lines 50-55 on the text they returned.
SanitizeAgain ==
    /\ sstep = "sanitized"
    /\ clean2' = Sanitize(clean)
    /\ sstep' = "twice"
    /\ UNCHANGED <<text, kept, clean, runVars, loadVars>>

NextSan == SanitizeReply \/ SanitizeAgain

SpecSan == InitSan /\ [][NextSan]_vars

----------------------------------------------------------------------------
(* The loader applied to a document.                                       *)

InitLoad ==
    /\ node \in LoadDocs
    /\ data = PyNone
    /\ lstep = "doc"
    /\ RunIdle
    /\ SanIdle

\* yaml.safe_load returns the document.
LoadDocument ==
    /\ lstep = "doc"
    /\ ConstructObject(node).type # "error"
    /\ data' = ConstructObject(node)
    /\ lstep' = "loaded"
    /\ UNCHANGED <<node, runVars, sanVars>>

\* yaml.safe_load raises: no document.
LoadRaises ==
    /\ lstep = "doc"
    /\ ConstructObject(node).type = "error"
    /\ lstep' = "raised"
    /\ UNCHANGED <<node, data, runVars, sanVars>>

NextLoad == LoadDocument \/ LoadRaises

SpecLoad == InitLoad /\ [][NextLoad]_vars

----------------------------------------------------------------------------
(* The run of convert (lines 60-179), one action per step and outcome.     *)

Init ==
    /\ pc = "start"
    /\ cft_file \in SrcPaths
    /\ output_dir \in OutDirs
    /\ \E src \in SourceNames, present \in BOOLEAN :
          fs = [p \in AllPaths |->
                  IF p = cft_file /\ present THEN File(<<src>>) ELSE NoFile]
    /\ source_text = <<>>
    /\ template = PyNone
    /\ prompt = PyNone
    /\ calls = 0
    /\ reply = <<>>
    /\ tf_code = <<>>
    /\ original_template = <<>>
    /\ stdout = <<>>
    /\ written = {}
    /\ error = "none"
    /\ SanIdle
    /\ LoadIdle

\* An exception leaves convert: the run is over.
Raise(step) ==
    /\ pc' = "failed"
    /\ error' = step

\* Line 61: the output directory exists afterwards.
Mkdir ==
    /\ pc = "start"
    /\ pc' = "load"
    /\ UNCHANGED <<cft_file, output_dir, fs, source_text, template, prompt,
                   calls, reply, tf_code, original_template, stdout, written,
                   error, sanVars, loadVars>>

\* Line 61: mkdir raises (no parent directory, or a file of that name).
MkdirRaises ==
    /\ pc = "start"
    /\ Raise("mkdir")
    /\ UNCHANGED <<cft_file, output_dir, fs, source_text, template, prompt,
                   calls, reply, tf_code, original_template, stdout, written,
                   sanVars, loadVars>>

\* Line 63: open(cft_file) raises, there is no such file.
OpenRaises ==
    /\ pc = "load"
    /\ ~fs[cft_file].exists
    /\ Raise("open")
    /\ UNCHANGED <<cft_file, output_dir, fs, source_text, template, prompt,
                   calls, reply, tf_code, original_template, stdout, written,
                   sanVars, loadVars>>

\* Lines 63-64: the source is read and loaded.
Load ==
    /\ pc = "load"
    /\ fs[cft_file].exists
    /\ ConstructObject(Compose(fs[cft_file].data)).type # "error"
    /\ source_text' = fs[cft_file].data
    /\ template' = ConstructObject(Compose(fs[cft_file].data))
    /\ pc' = "prompt"
    /\ UNCHANGED <<cft_file, output_dir, fs, prompt, calls, reply, tf_code,
                   original_template, stdout, written, error, sanVars,
                   loadVars>>

\* Lines 63-64: the source is read and yaml.safe_load raises.
LoadFails ==
    /\ pc = "load"
    /\ fs[cft_file].exists
    /\ ConstructObject(Compose(fs[cft_file].data)).type = "error"
    /\ source_text' = fs[cft_file].data
    /\ Raise("load")
    /\ UNCHANGED <<cft_file, output_dir, fs, template, prompt, calls, reply,
                   tf_code, original_template, stdout, written, sanVars,
                   loadVars>>

\* Lines 66-158: the prompt is built around json.dumps(template) and the
\* progress line is printed.
BuildPrompt ==
    /\ pc = "prompt"
    /\ JsonSerializable(template)
    /\ prompt' = template
    /\ stdout' = Append(stdout, "Calling Bedrock to convert")
    /\ pc' = "call"
    /\ UNCHANGED <<cft_file, output_dir, fs, source_text, template, calls,
                   reply, tf_code, original_template, written, error,
                   sanVars, loadVars>>

\* Line 69: json.dumps raises.
BuildPromptRaises ==
    /\ pc = "prompt"
    /\ ~JsonSerializable(template)
    /\ Raise("prompt")
    /\ UNCHANGED <<cft_file, output_dir, fs, source_text, template, prompt,
                   calls, reply, tf_code, original_template, stdout, written,
                   sanVars, loadVars>>

\* Lines 159, 34-55: call_bedrock calls the collaborator once and returns
\* the sanitized text of its reply.
CallBedrock ==
    /\ pc = "call"
    /\ \E r \in RunReplies :
          /\ reply' = r
          /\ tf_code' = Sanitize(r)
    /\ calls' = calls + 1
    /\ pc' = "write_tf"
    /\ UNCHANGED <<cft_file, output_dir, fs, source_text, template, prompt,
                   original_template, stdout, written, error, sanVars,
                   loadVars>>

\* A variant of CallBedrockRaises: the failed call is tried again.
CallBedrockRetries ==
    /\ pc = "call"
    /\ calls < 3
    /\ calls' = calls + 1
    /\ stdout' = Append(stdout, "Bedrock error")
    /\ UNCHANGED <<pc, error, cft_file, output_dir, fs, source_text,
                   template, prompt, reply, tf_code, original_template,
                   written, sanVars, loadVars>>

\* Lines 159, 34-58: the call (or the reading of its response) raises;
\* call_bedrock prints one line and raises again, and convert does not
\* catch it.
CallBedrockRaises ==
    /\ pc = "call"
    /\ calls' = calls + 1
    /\ stdout' = Append(stdout, "Bedrock error")
    /\ Raise("bedrock")
    /\ UNCHANGED <<cft_file, output_dir, fs, source_text, template, prompt,
                   reply, tf_code, original_template, written, sanVars,
                   loadVars>>

\* Lines 161-162: the translation file is written.
WriteTf ==
    /\ pc = "write_tf"
    /\ fs' = [fs EXCEPT ![OutputFile(cft_file, output_dir)] = File(tf_code)]
    /\ written' = written \cup {"tf"}
    /\ pc' = "reread"
    /\ UNCHANGED <<cft_file, output_dir, source_text, template, prompt, calls,
                   reply, tf_code, original_template, stdout, error, sanVars,
                   loadVars>>

\* Line 162: write_text raises, before it opened the file or after it
\* truncated it.
WriteTfRaises ==
    /\ pc = "write_tf"
    /\ \E truncated \in BOOLEAN :
          fs' = IF truncated
                THEN [fs EXCEPT ![OutputFile(cft_file, output_dir)] =
                                    File(<<>>)]
                ELSE fs
    /\ Raise("write_tf")
    /\ UNCHANGED <<cft_file, output_dir, source_text, template, prompt, calls,
                   reply, tf_code, original_template, stdout, written,
                   sanVars, loadVars>>

\* Line 165: the source file is read a second time.
Reread ==
    /\ pc = "reread"
    /\ fs[cft_file].exists
    /\ original_template' = fs[cft_file].data
    /\ pc' = "write_report"
    /\ UNCHANGED <<cft_file, output_dir, fs, source_text, template, prompt,
                   calls, reply, tf_code, stdout, written, error, sanVars,
                   loadVars>>

\* Line 165: open or read raises.
RereadRaises ==
    /\ pc = "reread"
    /\ Raise("reread")
    /\ UNCHANGED <<cft_file, output_dir, fs, source_text, template, prompt,
                   calls, reply, tf_code, original_template, stdout, written,
                   sanVars, loadVars>>

\* A variant of WriteReport: the run ends without the report written.
WriteReportSkipped ==
    /\ pc = "write_report"
    /\ stdout' = Append(stdout, "Converted")
    /\ pc' = "done"
    /\ UNCHANGED <<cft_file, output_dir, fs, source_text, template, prompt,
                   calls, reply, tf_code, original_template, written, error,
                   sanVars, loadVars>>

\* Lines 166-179: the report is built and written, the last line printed.
WriteReport ==
    /\ pc = "write_report"
    /\ fs' = [fs EXCEPT ![ReportFile(output_dir)] =
                 File(ReportContent(cft_file, tf_code, original_template))]
    /\ written' = written \cup {"report"}
    /\ stdout' = Append(stdout, "Converted")
    /\ pc' = "done"
    /\ UNCHANGED <<cft_file, output_dir, source_text, template, prompt, calls,
                   reply, tf_code, original_template, error, sanVars,
                   loadVars>>

\* Line 176: write_text raises, before it opened the file or after it
\* truncated it.
WriteReportRaises ==
    /\ pc = "write_report"
    /\ \E truncated \in BOOLEAN :
          fs' = IF truncated
                THEN [fs EXCEPT ![ReportFile(output_dir)] = File(<<>>)]
                ELSE fs
    /\ Raise("write_report")
    /\ UNCHANGED <<cft_file, output_dir, source_text, template, prompt, calls,
                   reply, tf_code, original_template, stdout, written,
                   sanVars, loadVars>>

Next ==
    \/ Mkdir
    \/ MkdirRaises
    \/ OpenRaises
    \/ Load
    \/ LoadFails
    \/ BuildPrompt
    \/ BuildPromptRaises
    \/ CallBedrock
    \/ CallBedrockRaises
    \/ WriteTf
    \/ WriteTfRaises
    \/ Reread
    \/ RereadRaises
    \/ WriteReport
    \/ WriteReportRaises

Spec == Init /\ [][Next]_vars

----------------------------------------------------------------------------
(* Properties.                                                             *)

Range(f) == {f[k] : k \in DOMAIN f}

\* The position at which the line holding position i ends.
LineEndFrom(t, i) ==
    SetMin({k \in i..(Len(t) + 1) : k = Len(t) + 1 \/ t[k] = "\n"})

RestOfLine(t, i) == SubSeq(t, i, LineEndFrom(t, i) - 1)

\* What may follow the fence on a fence line: nothing or a hint token in
\* any spelling, then whitespace only.
FenceLineRest(r) ==
    \E n \in 0..Len(r) :
        /\ Lower(SubSeq(r, 1, n)) \in HintSet \cup {<<>>}
        /\ \A k \in (n + 1)..Len(r) : r[k] \in Ws

\* The positions at which a fence line starts.
FenceLines(t) ==
    {i \in 1..Len(t) : /\ AtLineStart(t, i)
                       /\ HasPrefixAt(t, i, Fence3)
                       /\ FenceLineRest(RestOfLine(t, i + 3))}

\* The fence lines between the first and the last one.
InteriorFenceLines(t) ==
    IF FenceLines(t) = {} THEN {}
    ELSE FenceLines(t) \ {SetMin(FenceLines(t)), SetMax(FenceLines(t))}

\* The fences that do not start their line, or that are followed on their
\* line by text that is no hint token.
ProtectedFences(t) ==
    {i \in 1..Len(t) : /\ HasPrefixAt(t, i, Fence3)
                       /\ \/ ~AtLineStart(t, i)
                          \/ ~FenceLineRest(RestOfLine(t, i + 3))}

Sanitized == sstep \in {"sanitized", "twice"}

\* C1: the sanitizer removes at most one leading and one trailing fence
\* line; every fence line between the outermost two is still in the
\* returned text.
C1_InteriorFencesKept ==
    Sanitized =>
        \A i \in InteriorFenceLines(text) : {i, i + 1, i + 2} \subseteq Range(kept)

\* C2: sanitizing the sanitized text changes nothing.
C2_Idempotent == sstep = "twice" => clean2 = clean

\* C3: a first line made of the fence and a hint token in any upper/lower
\* case spelling is removed.
C3_HintCaseInsensitive ==
    Sanitized =>
        \A sp \in HintSpellings :
            HasPrefixAt(text, 1, Fence3 \o sp \o <<"\n">>) =>
                \A k \in 1..(Len(sp) + 4) : k \notin Range(kept)

\* C4: a fence that does not start its line, or that is followed on its
\* line by text other than a hint token, is never removed: its three
\* backticks are in the returned text.
C4_LineOriented ==
    Sanitized =>
        \A i \in ProtectedFences(text) : {i, i + 1, i + 2} \subseteq Range(kept)

\* A reply with a fence line that was removed and a protected fence.
C4_Witness ==
    /\ sstep = "sanitized"
    /\ ProtectedFences(text) # {}
    /\ \E i \in FenceLines(text) : i \notin Range(kept)

\* The long-form names and the argument classes as documented.
C5LongForm ==
    [tag \in {"!Ref", "!Sub", "!GetAtt", "!Join", "!Select", "!GetAZs",
              "!Split", "!Base64", "!Cidr", "!ImportValue", "!FindInMap",
              "!If", "!Equals", "!Not", "!And", "!Or"} |->
       CASE tag = "!Ref" -> "Ref"
         [] tag = "!Sub" -> "Fn::Sub"
         [] tag = "!GetAtt" -> "Fn::GetAtt"
         [] tag = "!Join" -> "Fn::Join"
         [] tag = "!Select" -> "Fn::Select"
         [] tag = "!GetAZs" -> "Fn::GetAZs"
         [] tag = "!Split" -> "Fn::Split"
         [] tag = "!Base64" -> "Fn::Base64"
         [] tag = "!Cidr" -> "Fn::Cidr"
         [] tag = "!ImportValue" -> "Fn::ImportValue"
         [] tag = "!FindInMap" -> "Fn::FindInMap"
         [] tag = "!If" -> "Fn::If"
         [] tag = "!Equals" -> "Fn::Equals"
         [] tag = "!Not" -> "Fn::Not"
         [] tag = "!And" -> "Fn::And"
         [] tag = "!Or" -> "Fn::Or"]

C5ScalarTags == {"!Ref", "!Sub", "!GetAZs", "!Base64", "!ImportValue"}

C5SequenceTags == {"!Join", "!Select", "!Split", "!Cidr", "!FindInMap", "!If",
                   "!Equals", "!Not", "!And", "!Or"}

C5Expands(v, tag) ==
    v.type = "dict" /\ v.keys = <<C5LongForm[tag]>> /\ Len(v.items) = 1

\* C5: a document made of a recognized tag loads as a one-key mapping
\* under the long-form name; a scalar-argument tag carries its payload
\* unchanged, a sequence-argument tag the list of its items in order, each
\* item that is tagged expanded in turn. Such a document fails to load
\* only when the tag is on the wrong kind of node or an item fails to load.
C5_TagShapes ==
    /\ (lstep = "loaded" /\ node.tag \in DOMAIN C5LongForm) =>
          /\ C5Expands(data, node.tag)
          /\ node.tag \in C5ScalarTags => data.items[1] = PyStr(node.value)
          /\ node.tag \in C5SequenceTags =>
                /\ data.items[1].type = "list"
                /\ Len(data.items[1].items) = Len(node.kids)
                /\ \A k \in 1..Len(node.kids) :
                      /\ data.items[1].items[k] = ConstructObject(node.kids[k])
                      /\ node.kids[k].tag \in DOMAIN C5LongForm =>
                            C5Expands(data.items[1].items[k], node.kids[k].tag)
    /\ (lstep = "raised" /\ node.tag \in C5ScalarTags) => node.kind # "scalar"
    /\ (lstep = "raised" /\ node.tag \in C5SequenceTags) =>
          \/ node.kind # "sequence"
          \/ \E k \in 1..Len(node.kids) :
                ConstructObject(node.kids[k]).type = "error"

\* A loaded sequence-argument tag whose two items are tagged themselves.
C5_Witness ==
    /\ lstep = "loaded"
    /\ node.tag = "!If"
    /\ Len(node.kids) = 2
    /\ node.kids[1].tag = "!Join"
    /\ node.kids[2].tag = "!GetAtt"

NumDots(s) == Cardinality({k \in 1..Len(s) : s[k] = "."})

RECURSIVE JoinDots(_)
JoinDots(segs) ==
    IF Len(segs) = 1 THEN segs[1].text
    ELSE segs[1].text \o <<".">> \o JoinDots(Tail(segs))

\* C6: the GetAtt tag on a scalar always loads, as Fn::GetAtt over the
\* list of the segments of its payload between the dots, in order: one
\* more segment than there are dots.
C6_GetAttSplit ==
    (lstep # "doc" /\ node.tag = "!GetAtt" /\ node.kind = "scalar") =>
        /\ lstep = "loaded"
        /\ data.type = "dict"
        /\ data.keys = <<"Fn::GetAtt">>
        /\ Len(data.items) = 1
        /\ data.items[1].type = "list"
        /\ Len(data.items[1].items) = NumDots(node.value) + 1
        /\ \A k \in 1..Len(data.items[1].items) :
              /\ data.items[1].items[k].type = "str"
              /\ "." \notin Range(data.items[1].items[k].text)
        /\ JoinDots(data.items[1].items) = node.value

\* A payload with two dots, loaded as three segments.
C6_Witness ==
    /\ lstep = "loaded"
    /\ node = ScalarNode("!GetAtt", <<"A", ".", "B", ".", "A">>)
    /\ data.items[1].items = <<PyStr(<<"A">>), PyStr(<<"B">>), PyStr(<<"A">>)>>

\* The files as they were when the run started, given the text read.
FilesUntouched ==
    fs = [p \in AllPaths |->
            IF p = cft_file THEN File(source_text) ELSE NoFile]

\* C7: once a source with a tag outside the registered ones has been read,
\* the run has failed in the load, there is no document, the collaborator
\* has not been called and no file has been written.
C7_UnknownTagAborts ==
    (source_text # <<>> /\ HasUnknownTag(Compose(source_text))) =>
        /\ pc = "failed"
        /\ error = "load"
        /\ template = PyNone
        /\ calls = 0
        /\ written = {}
        /\ FilesUntouched

\* A run that failed in the load of a source with an unknown tag inside a
\* recognized one.
C7_Witness ==
    /\ pc = "failed"
    /\ error = "load"
    /\ source_text = <<"unknown_nested">>

\* C8: the collaborator is called at most once; when the call fails, one
\* diagnostic line has been printed, the run is over and no output file
\* has been written.
C8_SingleCall ==
    /\ calls <= 1
    /\ error = "bedrock" =>
          /\ pc = "failed"
          /\ calls = 1
          /\ stdout = <<"Calling Bedrock to convert", "Bedrock error">>
          /\ written = {}
          /\ FilesUntouched

\* A run ended by a failed call.
C8_Witness == pc = "failed" /\ error = "bedrock" /\ calls = 1

Ended == pc \in {"done", "failed"}

\* C9 as stated: a run ends with both output files written or neither.
C9_BothOrNeither ==
    Ended => written \in {{}, {"tf", "report"}}

\* C9 amended: a run that succeeds has written both files; a run that
\* fails before or in the writing of the translation has written neither; a
\* run that fails in re-reading the source or in writing the report has
\* written the translation only; the report is never written without the
\* translation.
C9_WritesInOrder ==
    /\ pc = "done" => written = {"tf", "report"}
    /\ (pc = "failed" /\ error \in {"mkdir", "open", "load", "prompt",
                                    "bedrock", "write_tf"}) => written = {}
    /\ (pc = "failed" /\ error \in {"reread", "write_report"}) =>
          written = {"tf"}
    /\ "report" \in written => "tf" \in written
    /\ "tf" \in written =>
          fs[OutputFile(cft_file, output_dir)] = File(tf_code)
    /\ "report" \in written <=> pc = "done"

\* A run that failed in re-reading the source, the translation written.
C9_Witness == pc = "failed" /\ error = "reread" /\ written = {"tf"}

\* C10: after a successful run on a fenced reply the translation file holds
\* the sanitized reply, and the report holds the sanitized reply and the
\* source text that was parsed.
C10_ReportHoldsParsedSource ==
    (pc = "done" /\ FenceLines(reply) # {}) =>
        /\ fs[OutputFile(cft_file, output_dir)].data = Sanitize(reply)
        /\ Contains(fs[ReportFile(output_dir)].data, Sanitize(reply))
        /\ Contains(fs[ReportFile(output_dir)].data, source_text)

====
